---- MODULE Spec2Model ----
(***************************************************************************)
(* Model of train.py: the fine-tuning launcher.  main() is a straight line *)
(* of calls into the transformers library, the timer, the file system and  *)
(* the wandb service.  Each statement of main that calls out is one action;*)
(* a call either returns or raises, and a raised exception is never caught *)
(* (main has no try/except), so it ends the run.                           *)
(***************************************************************************)
EXTENDS Integers, Sequences, FiniteSets, TLC

\* ---- bounds of the model ------------------------------------------------
MaxVocab == 3        \* pretrained vocabularies of 2..MaxVocab tokens
MaxDur == 1          \* an external call lasts at most MaxDur clock ticks
MaxLoss == 1         \* finite losses 0..MaxLoss, plus one loss too big for exp

\* ---- program constants --------------------------------------------------
block_size == 512            \* data_args.block_size
SecondsPerHour == 3600       \* (end - start) / 3600
ExpMaxArg == 709             \* math.exp raises OverflowError above this
Milli == 1000                \* perplexity is kept in thousandths
EMilli == 2718               \* e, in thousandths

sep == "<|sep|>"
train_data_file == "/data/train.txt"
eval_data_file == "/data/eval.txt"
output_dir == "/gpt2"
output_eval_file == <<output_dir, "eval_results_lm.txt">>

None == [none |-> TRUE]
Unset == -1                  \* a local of main that is not assigned yet

VARIABLES
    pc,             \* the statement of main that runs next
    failedAt,       \* the statement whose exception ended the run, or "none"
    do_train, do_eval, line_by_line,   \* training_args / data_args flags
    config,         \* the pretrained configuration (its vocab_size)
    vocab,          \* the tokenizer's vocabulary (set of tokens)
    emb,            \* rows of the model's embedding table
    loadedVocab,    \* len(tokenizer) right after from_pretrained
    train_dataset, eval_dataset,
    calls,          \* the external calls made so far, in order
    clock,          \* wall clock (seconds)
    start, end,     \* the two timer() readings
    trainCalledAt, trainReturnedAt,    \* clock at entry / exit of trainer.train
    training_loss,  \* train_results.training_loss
    eval_loss,      \* eval_output["eval_loss"]
    perplexity, result, results,
    keysLeft,       \* rest of the loop "for key in sorted(result.keys())"
    modelSaved, tokenizerSaved, world_master,
    printed,        \* what "Training took ... hours." shows
    priorFile,      \* the results file as it was before the run
    file,           \* the results file
    wandbLog        \* the mappings delivered to wandb.log, in order

cfgVars == <<do_train, do_eval, line_by_line, priorFile>>
tokVars == <<config, vocab, emb, loadedVocab>>
dsVars == <<train_dataset, eval_dataset>>
timeVars == <<clock, start, end, trainCalledAt, trainReturnedAt>>
evalVars == <<training_loss, eval_loss, perplexity, result, results, keysLeft>>
saveVars == <<modelSaved, tokenizerSaved, world_master, printed>>
outVars == <<file, wandbLog>>
vars == <<pc, failedAt, cfgVars, tokVars, dsVars, calls, timeVars, evalVars,
          saveVars, outVars>>

\* ---- pure helpers -------------------------------------------------------

\* A pretrained vocabulary of n tokens; the separator is not one of them.
PretrainedVocab(n) == {ToString(i) : i \in 1..n}

\* tokenizer.add_special_tokens({"sep_token": tok}): the token is added
\* unless the vocabulary already has it.
add_special_tokens(v, tok) == v \cup {tok}

\* len(tokenizer)
len(v) == Cardinality(v)

\* The resize left out: the table keeps its rows.
resize_token_embeddings_kept(rows, n) == rows

\* model.resize_token_embeddings(n)
resize_token_embeddings(rows, n) == n

\* get_dataset with the split flag read the wrong way round.
get_dataset_swapped(lbl, tokenizer, evaluate) ==
    LET file_path == IF evaluate THEN train_data_file ELSE eval_data_file
    IN  IF lbl
        THEN [ctor |-> "LineByLineTextDataset", tokenizer |-> tokenizer,
              file_path |-> file_path, block_size |-> block_size]
        ELSE [ctor |-> "TextDataset", tokenizer |-> tokenizer,
              file_path |-> file_path, block_size |-> block_size]

\* get_dataset(args, tokenizer, evaluate): the one constructor call it makes.
get_dataset(lbl, tokenizer, evaluate) ==
    LET file_path == IF evaluate THEN eval_data_file ELSE train_data_file
    IN  IF lbl
        THEN [ctor |-> "LineByLineTextDataset", tokenizer |-> tokenizer,
              file_path |-> file_path, block_size |-> block_size]
        ELSE [ctor |-> "TextDataset", tokenizer |-> tokenizer,
              file_path |-> file_path, block_size |-> block_size]

\* e^x in thousandths, for the small integer losses of the model.
RECURSIVE ExpMilli(_)
ExpMilli(x) == IF x = 0 THEN Milli ELSE (ExpMilli(x - 1) * EMilli) \div Milli

ExpOverflows(x) == x > ExpMaxArg

\* (end - start) / 3600 : a duration in hours, as a fraction.
Hours(seconds) == [num |-> seconds, den |-> SecondsPerHour]

\* Lexicographic order on the metric names the script uses.
KeyOrder == <<"eval_loss", "perplexity", "train_loss", "train_time">>
KeyRank(k) == CHOOSE i \in 1..Len(KeyOrder) : KeyOrder[i] = k
KeyLess(a, b) == KeyRank(a) < KeyRank(b)

\* sorted(d.keys())
RECURSIVE SortedSet(_)
SortedSet(S) ==
    IF S = {} THEN <<>>
    ELSE LET m == CHOOSE k \in S : \A o \in S \ {k} : KeyLess(k, o)
         IN  <<m>> \o SortedSet(S \ {m})
sorted(d) == SortedSet(DOMAIN d)

\* "%s = %s\n" % (key, str(value))
Line(key, value) == [key |-> key, eq |-> " = ", value |-> value, nl |-> "\n"]

\* A results file an earlier run may have left behind.
StaleLine == [key |-> "perplexity", eq |-> " = ", value |-> 0, nl |-> "\n"]
PriorFiles == {[exists |-> FALSE, lines |-> <<>>],
               [exists |-> TRUE, lines |-> <<StaleLine>>]}

\* {} : a dict without keys
EmptyDict == [k \in {} |-> 0]

Losses == (0..MaxLoss) \cup {ExpMaxArg + 1}
Durations == 0..MaxDur

\* ---- the run ------------------------------------------------------------

Init ==
    /\ pc = "set_seed"
    /\ failedAt = "none"
    /\ do_train \in BOOLEAN
    /\ do_eval \in BOOLEAN
    /\ line_by_line \in BOOLEAN
    /\ priorFile \in PriorFiles
    /\ file = priorFile
    /\ config = None
    /\ vocab = {}
    /\ emb = 0
    /\ loadedVocab = 0
    /\ train_dataset = None
    /\ eval_dataset = None
    /\ calls = <<>>
    /\ clock = 0
    /\ start = Unset
    /\ end = Unset
    /\ trainCalledAt = Unset
    /\ trainReturnedAt = Unset
    /\ training_loss = Unset
    /\ eval_loss = Unset
    /\ perplexity = Unset
    /\ result = EmptyDict
    /\ results = EmptyDict
    /\ keysLeft = <<>>
    /\ modelSaved = FALSE
    /\ tokenizerSaved = FALSE
    /\ world_master = FALSE
    /\ printed = None
    /\ wandbLog = <<>>

\* An exception leaves main: nothing catches it, the run is over.
Raise ==
    /\ pc' = "aborted"
    /\ failedAt' = pc

Goto(to) ==
    /\ pc' = to
    /\ UNCHANGED failedAt

\* An external call is made: it is recorded, then it returns or raises.
Call(name) == calls' = Append(calls, name)

\* set_seed(training_args.seed)
SetSeed ==
    /\ pc = "set_seed"
    /\ Call("set_seed")
    /\ \/ Goto("load_config")
       \/ Raise
    /\ UNCHANGED <<cfgVars, tokVars, dsVars, timeVars, evalVars, saveVars, outVars>>

\* config = AutoConfig.from_pretrained(...)
LoadConfig ==
    /\ pc = "load_config"
    /\ Call("AutoConfig.from_pretrained")
    /\ \/ /\ \E n \in 2..MaxVocab : config' = [vocab_size |-> n]
          /\ Goto("load_tokenizer")
       \/ /\ Raise
          /\ UNCHANGED config
    /\ UNCHANGED <<cfgVars, vocab, emb, loadedVocab, dsVars, timeVars, evalVars,
                   saveVars, outVars>>

\* tokenizer = AutoTokenizer.from_pretrained(...)
LoadTokenizer ==
    /\ pc = "load_tokenizer"
    /\ Call("AutoTokenizer.from_pretrained")
    /\ \/ /\ vocab' = PretrainedVocab(config.vocab_size)
          /\ loadedVocab' = len(vocab')
          /\ Goto("load_model")
       \/ /\ Raise
          /\ UNCHANGED <<vocab, loadedVocab>>
    /\ UNCHANGED <<cfgVars, config, emb, dsVars, timeVars, evalVars, saveVars, outVars>>

\* model = AutoModelWithLMHead.from_pretrained(..., config=config, ...)
LoadModel ==
    /\ pc = "load_model"
    /\ Call("AutoModelWithLMHead.from_pretrained")
    /\ \E d \in Durations : clock' = clock + d
    /\ \/ /\ emb' = config.vocab_size
          /\ Goto("add_special_tokens")
       \/ /\ Raise
          /\ UNCHANGED emb
    /\ UNCHANGED <<cfgVars, config, vocab, loadedVocab, dsVars, start, end,
                   trainCalledAt, trainReturnedAt, evalVars, saveVars, outVars>>

\* The separator is added after the datasets were asked for: main goes on
\* without the resize.
AddSpecialTokens_no_resize ==
    /\ pc = "add_special_tokens"
    /\ Call("add_special_tokens")
    /\ \/ /\ vocab' = add_special_tokens(vocab, sep)
          /\ Goto("train_dataset")
       \/ /\ Raise
          /\ UNCHANGED vocab
    /\ UNCHANGED <<cfgVars, config, emb, loadedVocab, dsVars, timeVars, evalVars,
                   saveVars, outVars>>

\* tokenizer.add_special_tokens({"sep_token": sep})
AddSpecialTokens ==
    /\ pc = "add_special_tokens"
    /\ Call("add_special_tokens")
    /\ \/ /\ vocab' = add_special_tokens(vocab, sep)
          /\ Goto("resize_token_embeddings")
       \/ /\ Raise
          /\ UNCHANGED vocab
    /\ UNCHANGED <<cfgVars, config, emb, loadedVocab, dsVars, timeVars, evalVars,
                   saveVars, outVars>>

\* model.resize_token_embeddings(len(tokenizer))
ResizeTokenEmbeddings ==
    /\ pc = "resize_token_embeddings"
    /\ Call("resize_token_embeddings")
    /\ \/ /\ emb' = resize_token_embeddings(emb, len(vocab))
          /\ Goto("train_dataset")
       \/ /\ Raise
          /\ UNCHANGED emb
    /\ UNCHANGED <<cfgVars, config, vocab, loadedVocab, dsVars, timeVars, evalVars,
                   saveVars, outVars>>

\* train_dataset = get_dataset(data_args, tokenizer=tokenizer)
\*                 if training_args.do_train else None
LoadTrainDataset ==
    /\ pc = "train_dataset"
    /\ IF do_train
       THEN LET ds == get_dataset(line_by_line, vocab, FALSE)
            IN  /\ Call(ds.ctor)
                /\ \/ /\ train_dataset' = ds
                      /\ Goto("eval_dataset")
                   \/ /\ Raise
                      /\ UNCHANGED train_dataset
       ELSE /\ train_dataset' = None
            /\ Goto("eval_dataset")
            /\ UNCHANGED calls
    /\ UNCHANGED <<cfgVars, tokVars, eval_dataset, timeVars, evalVars, saveVars, outVars>>

\* eval_dataset = get_dataset(data_args, tokenizer=tokenizer, evaluate=True)
\*                if training_args.do_eval else None
LoadEvalDataset ==
    /\ pc = "eval_dataset"
    /\ IF do_eval
       THEN LET ds == get_dataset(line_by_line, vocab, TRUE)
            IN  /\ Call(ds.ctor)
                /\ \/ /\ eval_dataset' = ds
                      /\ Goto("data_collator")
                   \/ /\ Raise
                      /\ UNCHANGED eval_dataset
       ELSE /\ eval_dataset' = None
            /\ Goto("data_collator")
            /\ UNCHANGED calls
    /\ UNCHANGED <<cfgVars, tokVars, train_dataset, timeVars, evalVars, saveVars, outVars>>

\* data_collator = DataCollatorForLanguageModeling(...)
MakeCollator ==
    /\ pc = "data_collator"
    /\ Call("DataCollatorForLanguageModeling")
    /\ \/ Goto("trainer")
       \/ Raise
    /\ UNCHANGED <<cfgVars, tokVars, dsVars, timeVars, evalVars, saveVars, outVars>>

\* trainer = Trainer(model=model, ..., train_dataset=..., eval_dataset=...)
\* and the model_path expression, which calls nothing that changes state.
MakeTrainer ==
    /\ pc = "trainer"
    /\ Call("Trainer")
    /\ \/ Goto("start")
       \/ Raise
    /\ UNCHANGED <<cfgVars, tokVars, dsVars, timeVars, evalVars, saveVars, outVars>>

\* The start of the measurement taken when the process starts, not here.
StartTimer_at_launch ==
    /\ pc = "start"
    /\ Call("timer")
    /\ start' = 0
    /\ Goto("train")
    /\ UNCHANGED <<cfgVars, tokVars, dsVars, clock, end, trainCalledAt,
                   trainReturnedAt, evalVars, saveVars, outVars>>

\* start = timer()
StartTimer ==
    /\ pc = "start"
    /\ Call("timer")
    /\ start' = clock
    /\ Goto("train")
    /\ UNCHANGED <<cfgVars, tokVars, dsVars, clock, end, trainCalledAt,
                   trainReturnedAt, evalVars, saveVars, outVars>>

\* train_results = trainer.train(model_path=model_path)
Train ==
    /\ pc = "train"
    /\ Call("train")
    /\ trainCalledAt' = clock
    /\ \E d \in Durations : clock' = clock + d
    /\ \/ /\ \E l \in 0..MaxLoss : training_loss' = l
          /\ trainReturnedAt' = clock'
          /\ Goto("end")
       \/ /\ Raise
          /\ UNCHANGED <<training_loss, trainReturnedAt>>
    /\ UNCHANGED <<cfgVars, tokVars, dsVars, start, end, eval_loss, perplexity,
                   result, results, keysLeft, saveVars, outVars>>

\* end = timer()
EndTimer ==
    /\ pc = "end"
    /\ Call("timer")
    /\ end' = clock
    /\ Goto("save_model")
    /\ UNCHANGED <<cfgVars, tokVars, dsVars, clock, start, trainCalledAt,
                   trainReturnedAt, evalVars, saveVars, outVars>>

\* trainer.save_model()
SaveModel ==
    /\ pc = "save_model"
    /\ Call("save_model")
    /\ \E d \in Durations : clock' = clock + d
    /\ \/ /\ modelSaved' = TRUE
          /\ Goto("save_tokenizer")
       \/ /\ Raise
          /\ UNCHANGED modelSaved
    /\ UNCHANGED <<cfgVars, tokVars, dsVars, start, end, trainCalledAt,
                   trainReturnedAt, evalVars, tokenizerSaved, world_master,
                   printed, outVars>>

\* The tokenizer saved without asking is_world_master().
SaveTokenizer_always ==
    /\ pc = "save_tokenizer"
    /\ \E m \in BOOLEAN : world_master' = m
    /\ Call("save_pretrained")
    /\ \/ /\ tokenizerSaved' = TRUE
          /\ Goto("print")
       \/ /\ Raise
          /\ UNCHANGED tokenizerSaved
    /\ UNCHANGED <<cfgVars, tokVars, dsVars, timeVars, evalVars, modelSaved,
                   printed, outVars>>

\* if trainer.is_world_master():
\*     tokenizer.save_pretrained(training_args.output_dir)
SaveTokenizer ==
    /\ pc = "save_tokenizer"
    /\ \E m \in BOOLEAN :
        /\ world_master' = m
        /\ IF m
           THEN /\ Call("save_pretrained")
                /\ \/ /\ tokenizerSaved' = TRUE
                      /\ Goto("print")
                   \/ /\ Raise
                      /\ UNCHANGED tokenizerSaved
           ELSE /\ Goto("print")
                /\ UNCHANGED <<calls, tokenizerSaved>>
    /\ UNCHANGED <<cfgVars, tokVars, dsVars, timeVars, evalVars, modelSaved,
                   printed, outVars>>

\* print(f"Training took {(end - start) / 3600} hours.")
PrintTime ==
    /\ pc = "print"
    /\ printed' = Hours(end - start)
    /\ Goto("evaluate")
    /\ UNCHANGED <<cfgVars, tokVars, dsVars, calls, timeVars, evalVars, modelSaved,
                   tokenizerSaved, world_master, outVars>>

\* results = {} ; eval_output = trainer.evaluate()
Evaluate ==
    /\ pc = "evaluate"
    /\ results' = EmptyDict
    /\ Call("evaluate")
    /\ \E d \in Durations : clock' = clock + d
    /\ \/ /\ \E l \in Losses : eval_loss' = l
          /\ Goto("perplexity")
       \/ /\ Raise
          /\ UNCHANGED eval_loss
    /\ UNCHANGED <<cfgVars, tokVars, dsVars, start, end, trainCalledAt,
                   trainReturnedAt, training_loss, perplexity, result, keysLeft,
                   saveVars, outVars>>

\* The overflow swallowed: main goes on with a saturated perplexity.
Perplexity_caught ==
    /\ pc = "perplexity"
    /\ Call("math.exp")
    /\ perplexity' = IF ExpOverflows(eval_loss) THEN Milli * Milli
                     ELSE ExpMilli(eval_loss)
    /\ result' = [k \in {"perplexity"} |-> perplexity']
    /\ Goto("open")
    /\ UNCHANGED <<cfgVars, tokVars, dsVars, timeVars, training_loss, eval_loss,
                   results, keysLeft, saveVars, outVars>>

\* The raw evaluation loss put into the result mapping as well.
Perplexity_with_loss ==
    /\ pc = "perplexity"
    /\ Call("math.exp")
    /\ IF ExpOverflows(eval_loss)
       THEN /\ Raise
            /\ UNCHANGED <<perplexity, result>>
       ELSE /\ perplexity' = ExpMilli(eval_loss)
            /\ result' = [k \in {"eval_loss", "perplexity"} |->
                             IF k = "perplexity" THEN perplexity' ELSE eval_loss]
            /\ Goto("open")
    /\ UNCHANGED <<cfgVars, tokVars, dsVars, timeVars, training_loss, eval_loss,
                   results, keysLeft, saveVars, outVars>>

\* perplexity = math.exp(eval_output["eval_loss"])
\* result = {"perplexity": perplexity}
Perplexity ==
    /\ pc = "perplexity"
    /\ Call("math.exp")
    /\ IF ExpOverflows(eval_loss)
       THEN /\ Raise
            /\ UNCHANGED <<perplexity, result>>
       ELSE /\ perplexity' = ExpMilli(eval_loss)
            /\ result' = [k \in {"perplexity"} |-> perplexity']
            /\ Goto("open")
    /\ UNCHANGED <<cfgVars, tokVars, dsVars, timeVars, training_loss, eval_loss,
                   results, keysLeft, saveVars, outVars>>

\* The file opened in append mode: what it held stays.
OpenFile_append ==
    /\ pc = "open"
    /\ Call("open")
    /\ \/ /\ file' = [exists |-> TRUE, lines |-> file.lines]
          /\ keysLeft' = sorted(result)
          /\ Goto("write")
       \/ /\ Raise
          /\ UNCHANGED <<file, keysLeft>>
    /\ UNCHANGED <<cfgVars, tokVars, dsVars, timeVars, training_loss, eval_loss,
                   perplexity, result, results, saveVars, wandbLog>>

\* with open(output_eval_file, "w") as writer:  -- the file is truncated
\*     for key in sorted(result.keys()):
OpenFile ==
    /\ pc = "open"
    /\ Call("open")
    /\ \/ /\ file' = [exists |-> TRUE, lines |-> <<>>]
          /\ keysLeft' = sorted(result)
          /\ Goto("write")
       \/ /\ Raise
          /\ UNCHANGED <<file, keysLeft>>
    /\ UNCHANGED <<cfgVars, tokVars, dsVars, timeVars, training_loss, eval_loss,
                   perplexity, result, results, saveVars, wandbLog>>

\*         writer.write("%s = %s\n" % (key, str(result[key])))
WriteLine ==
    /\ pc = "write"
    /\ keysLeft # <<>>
    /\ Call("write")
    /\ \/ /\ file' = [file EXCEPT !.lines =
                         Append(@, Line(Head(keysLeft), result[Head(keysLeft)]))]
          /\ keysLeft' = Tail(keysLeft)
          /\ Goto("write")
       \/ /\ Raise
          /\ UNCHANGED <<file, keysLeft>>
    /\ UNCHANGED <<cfgVars, tokVars, dsVars, timeVars, training_loss, eval_loss,
                   perplexity, result, results, saveVars, wandbLog>>

\* the loop is over and the with block closes the file
CloseFile ==
    /\ pc = "write"
    /\ keysLeft = <<>>
    /\ Goto("log_train_loss")
    /\ UNCHANGED <<cfgVars, tokVars, dsVars, calls, timeVars, evalVars, saveVars,
                   outVars>>

\* One wandb.log(d) call: d is delivered, or the call raises.
Log(d, to) ==
    /\ Call("wandb.log")
    /\ \/ /\ wandbLog' = Append(wandbLog, d)
          /\ Goto(to)
       \/ /\ Raise
          /\ UNCHANGED wandbLog

\* results.update(result)
\* wandb.log({"train_loss": train_results.training_loss})
LogTrainLoss ==
    /\ pc = "log_train_loss"
    /\ results' = [k \in DOMAIN results \cup DOMAIN result |->
                      IF k \in DOMAIN result THEN result[k] ELSE results[k]]
    /\ Log([k \in {"train_loss"} |-> training_loss], "log_eval_loss")
    /\ UNCHANGED <<cfgVars, tokVars, dsVars, timeVars, training_loss, eval_loss,
                   perplexity, result, keysLeft, saveVars, file>>

\* The evaluation loss and the result mapping sent in one call.
LogEvalLoss_batched ==
    /\ pc = "log_eval_loss"
    /\ Log([k \in {"eval_loss", "perplexity"} |->
               IF k = "eval_loss" THEN eval_loss ELSE perplexity], "log_train_time")
    /\ UNCHANGED <<cfgVars, tokVars, dsVars, timeVars, evalVars, saveVars, file>>

\* wandb.log({"eval_loss": eval_output["eval_loss"]})
LogEvalLoss ==
    /\ pc = "log_eval_loss"
    /\ Log([k \in {"eval_loss"} |-> eval_loss], "log_result")
    /\ UNCHANGED <<cfgVars, tokVars, dsVars, timeVars, evalVars, saveVars, file>>

\* wandb.log(result)
LogResult ==
    /\ pc = "log_result"
    /\ Log(result, "log_train_time")
    /\ UNCHANGED <<cfgVars, tokVars, dsVars, timeVars, evalVars, saveVars, file>>

\* wandb.log({"train_time": (end - start) / 3600})
LogTrainTime ==
    /\ pc = "log_train_time"
    /\ Log([k \in {"train_time"} |-> Hours(end - start)], "done")
    /\ UNCHANGED <<cfgVars, tokVars, dsVars, timeVars, evalVars, saveVars, file>>

Next ==
    \/ SetSeed
    \/ LoadConfig
    \/ LoadTokenizer
    \/ LoadModel
    \/ AddSpecialTokens
    \/ ResizeTokenEmbeddings
    \/ LoadTrainDataset
    \/ LoadEvalDataset
    \/ MakeCollator
    \/ MakeTrainer
    \/ StartTimer
    \/ Train
    \/ EndTimer
    \/ SaveModel
    \/ SaveTokenizer
    \/ PrintTime
    \/ Evaluate
    \/ Perplexity
    \/ OpenFile
    \/ WriteLine
    \/ CloseFile
    \/ LogTrainLoss
    \/ LogEvalLoss
    \/ LogResult
    \/ LogTrainTime

Spec == Init /\ [][Next]_vars

\* ---- vocabulary of the properties ---------------------------------------

Made(name) == \E i \in DOMAIN calls : calls[i] = name
Count(name) == Cardinality({i \in DOMAIN calls : calls[i] = name})
Before(a, b) ==
    \A j \in DOMAIN calls :
        calls[j] = b => \A i \in DOMAIN calls : calls[i] = a => i < j

DatasetCtors == {"LineByLineTextDataset", "TextDataset"}
CtorCalls == {i \in DOMAIN calls : calls[i] \in DatasetCtors}

\* The statements of main, in program order.
Steps == <<"set_seed", "load_config", "load_tokenizer", "load_model",
           "add_special_tokens", "resize_token_embeddings", "train_dataset",
           "eval_dataset", "data_collator", "trainer", "start", "train", "end",
           "save_model", "save_tokenizer", "print", "evaluate", "perplexity",
           "open", "write", "log_train_loss", "log_eval_loss", "log_result",
           "log_train_time", "done">>
StepRank(s) == CHOOSE i \in DOMAIN Steps : Steps[i] = s
\* The statement the run is at, or was at when it was aborted.
At == IF pc = "aborted" THEN failedAt ELSE pc
\* Statement s has run and returned.
Past(s) == StepRank(At) > StepRank(s)

TrainTime == Hours(trainReturnedAt - trainCalledAt)

\* ---- C1 -----------------------------------------------------------------
\* C1: when do_eval is false, trainer.evaluate is never called and no
\* perplexity is computed, written to the results file or sent to wandb.
C1_NoEvalWhenDisabled ==
    ~do_eval =>
        /\ ~Made("evaluate")
        /\ ~Made("math.exp")
        /\ perplexity = Unset
        /\ file = priorFile
        /\ wandbLog = <<>>

\* ---- C2 -----------------------------------------------------------------
C2_OrderOfCalls ==
    /\ Count("add_special_tokens") <= 1
    /\ Count("resize_token_embeddings") <= 1
    /\ Count("train") <= 1
    /\ Count("evaluate") <= 1
    /\ Before("add_special_tokens", "resize_token_embeddings")
    /\ \A c \in DatasetCtors :
          /\ Before("resize_token_embeddings", c)
          /\ Before(c, "train")
    /\ Before("train", "evaluate")
    \* a step starts only when every earlier one has returned
    /\ Made("resize_token_embeddings") => Past("add_special_tokens") /\ sep \in vocab
    /\ CtorCalls # {} => Past("resize_token_embeddings") /\ emb = len(vocab)
    /\ Made("train") =>
          /\ Past("eval_dataset")
          /\ Count("add_special_tokens") = 1
          /\ Count("resize_token_embeddings") = 1
          /\ Cardinality(CtorCalls) = (IF do_train THEN 1 ELSE 0) + (IF do_eval THEN 1 ELSE 0)
    /\ Made("evaluate") => Past("train") /\ trainReturnedAt # Unset

C2_NoLaterMutation ==
    Past("resize_token_embeddings") => (vocab' = vocab /\ emb' = emb)

\* C2: the separator is added, then the embedding table resized, then the
\* datasets built, then train called, then evaluate called, each after the
\* one before has returned; the extension happens once, and no later step
\* changes the vocabulary or the number of embedding rows.
C2_Sequential == [](C2_OrderOfCalls) /\ [][C2_NoLaterMutation]_vars

C2_Witness ==
    /\ Made("evaluate")
    /\ do_train /\ do_eval
    /\ Len(calls) > 12

\* ---- C3 -----------------------------------------------------------------
\* C3: the printed training time and the train_time metric are the duration
\* of the trainer.train call alone: the timer is read right before the call
\* and right after it returns, before save_model, the tokenizer save and
\* evaluate.
C3_TrainTimeOnly ==
    /\ printed # None => printed = TrainTime
    /\ \A i \in DOMAIN wandbLog :
          "train_time" \in DOMAIN wandbLog[i] => wandbLog[i]["train_time"] = TrainTime
    /\ \A i \in DOMAIN calls :
          calls[i] = "train" =>
              /\ i > 1 /\ calls[i - 1] = "timer"
              /\ i < Len(calls) => calls[i + 1] = "timer"
    /\ \A i \in DOMAIN calls :
          calls[i] \in {"save_model", "save_pretrained", "evaluate"} =>
              Count("timer") = 2 /\ \A j \in DOMAIN calls : calls[j] = "timer" => j < i
    /\ start # Unset => start = (IF trainCalledAt = Unset THEN clock ELSE trainCalledAt)
    /\ end # Unset => end = trainReturnedAt

C3_Witness ==
    /\ pc = "done"
    /\ start > 0
    /\ end > start
    /\ clock > end + 1
    /\ wandbLog[4]["train_time"] = Hours(1)
    /\ printed = Hours(1)

\* ---- C4 -----------------------------------------------------------------
C4_FailureState ==
    /\ (pc = "aborted") <=> (failedAt # "none")
    \* the call that raised is the last call made
    /\ pc = "aborted" => calls # <<>>
    \* nothing of the steps after the failing one has happened
    /\ pc = "aborted" /\ ~Past("train") => ~modelSaved /\ ~tokenizerSaved /\ printed = None
    /\ pc = "aborted" /\ ~Past("evaluate") => eval_loss = Unset
    /\ pc = "aborted" /\ ~Past("perplexity") =>
          /\ perplexity = Unset
          /\ ~Made("open")
          /\ file = priorFile
    /\ pc = "aborted" /\ ~Past("write") => ~Made("wandb.log") /\ wandbLog = <<>>
    \* what was done before the failure stays
    /\ pc = "aborted" /\ Past("save_model") => modelSaved
    /\ pc = "aborted" /\ Past("resize_token_embeddings") => sep \in vocab /\ emb = len(vocab)
    \* a loss too large for exp, or a failed evaluate
    /\ (Made("math.exp") /\ ExpOverflows(eval_loss)) \/ failedAt = "evaluate" =>
          /\ pc = "aborted"
          /\ ~Made("open")
          /\ file = priorFile
          /\ ~Made("wandb.log")
          /\ wandbLog = <<>>
          /\ modelSaved

\* C4: an exception of any call ends the run: no later step runs, nothing
\* is retried, and what was done stays; when evaluate or the perplexity
\* computation fails the results file is not opened or overwritten, nothing
\* is logged to wandb, and the saved model stays saved.
C4_ExceptionEndsRun == [](C4_FailureState) /\ [][pc = "aborted" => UNCHANGED vars]_vars

C4_Witness ==
    /\ failedAt = "perplexity"
    /\ ExpOverflows(eval_loss)
    /\ priorFile.exists
    /\ file = priorFile
    /\ modelSaved

\* ---- C5 -----------------------------------------------------------------
\* C5: after a successful run the results file holds one "key = value" line
\* per metric of the result mapping, in ascending order of key, and nothing
\* of what the file held before.
C5_ResultsFile ==
    pc = "done" =>
        /\ file.exists
        /\ Len(file.lines) = Cardinality(DOMAIN result)
        /\ \A k \in DOMAIN result :
              Cardinality({i \in DOMAIN file.lines : file.lines[i] = Line(k, result[k])}) = 1
        /\ \A i, j \in DOMAIN file.lines :
              i < j => KeyLess(file.lines[i].key, file.lines[j].key)
        /\ \A i \in DOMAIN file.lines : file.lines[i] # StaleLine

C5_Witness ==
    /\ pc = "done"
    /\ priorFile.exists
    /\ priorFile.lines # <<>>
    /\ file.lines # <<>>

\* ---- C6 -----------------------------------------------------------------
\* C6 as stated: every metric of the evaluation result, the evaluation loss
\* and the perplexity, is a line of the results file.
C6_FileHoldsLossAndPerplexity ==
    pc = "done" =>
        \A k \in {"eval_loss", "perplexity"} :
            \E i \in DOMAIN file.lines : file.lines[i].key = k

\* C6, amended: the results file holds the derived perplexity only; the raw
\* evaluation loss is not written to it (it goes to wandb alone).
C6_FileHoldsPerplexityOnly ==
    pc = "done" =>
        /\ file.lines = <<Line("perplexity", ExpMilli(eval_loss))>>
        /\ \A i \in DOMAIN file.lines : file.lines[i].key # "eval_loss"
        /\ \E i \in DOMAIN wandbLog :
              wandbLog[i] = [k \in {"eval_loss"} |-> eval_loss]

C6_Witness ==
    /\ pc = "done"
    /\ eval_loss = 1
    /\ file.lines = <<Line("perplexity", EMilli)>>

\* ---- C7 -----------------------------------------------------------------
\* C7: once train has returned, save_model is called in every run, and the
\* tokenizer is saved exactly when is_world_master() is true; a process
\* that is not the primary one never saves it.
C7_Persist ==
    /\ Past("train") /\ pc \notin {"end", "save_model"} => Made("save_model")
    /\ Past("save_model") => modelSaved
    /\ ~Past("train") => ~Made("save_model") /\ ~Made("save_pretrained")
    /\ Made("save_pretrained") => world_master /\ Past("save_model")
    /\ tokenizerSaved => world_master
    /\ Past("save_tokenizer") =>
          /\ tokenizerSaved <=> world_master
          /\ Made("save_pretrained") <=> world_master

C7_Witness ==
    /\ pc = "done"
    /\ ~world_master
    /\ modelSaved
    /\ ~tokenizerSaved

\* ---- C8 -----------------------------------------------------------------
LogKeys == <<{"train_loss"}, {"eval_loss"}, {"perplexity"}, {"train_time"}>>

\* C8: a successful run makes four wandb.log calls, for train_loss,
\* eval_loss, the result mapping and train_time, in this order and one
\* mapping per call, all after training, evaluation and the file write; a
\* failing call is the last one made.
C8_FourLogs ==
    /\ Len(wandbLog) <= 4
    /\ \A i \in DOMAIN wandbLog : DOMAIN wandbLog[i] = LogKeys[i]
    /\ Count("wandb.log") \in {Len(wandbLog), Len(wandbLog) + 1}
    /\ Made("wandb.log") =>
          /\ Past("write")
          /\ Made("train") /\ Made("evaluate") /\ Made("write")
          /\ \A i \in DOMAIN calls :
                calls[i] = "wandb.log" =>
                    \A j \in DOMAIN calls : calls[j] # "wandb.log" => j < i
    /\ Count("wandb.log") = Len(wandbLog) + 1 =>
          pc = "aborted" /\ calls[Len(calls)] = "wandb.log"
    /\ pc = "done" =>
          /\ Count("wandb.log") = 4
          /\ wandbLog = <<[k \in {"train_loss"} |-> training_loss],
                          [k \in {"eval_loss"} |-> eval_loss],
                          [k \in {"perplexity"} |-> ExpMilli(eval_loss)],
                          [k \in {"train_time"} |-> Hours(end - start)]>>

C8_Witness ==
    /\ pc = "done"
    /\ Len(wandbLog) = 4
    /\ training_loss = 1
    /\ eval_loss = 0

\* ---- C9 -----------------------------------------------------------------
ExpectedDataset(path) ==
    [ctor |-> IF line_by_line THEN "LineByLineTextDataset" ELSE "TextDataset",
     tokenizer |-> PretrainedVocab(config.vocab_size) \cup {sep},
     file_path |-> path,
     block_size |-> 512]

\* C9: get_dataset makes one constructor call, the line-by-line constructor
\* when line_by_line is set and the chunk constructor otherwise, on the eval
\* file when evaluate is set and on the train file otherwise, with the
\* configured block size and the tokenizer; main builds the train dataset
\* only when do_train is set and the eval dataset only when do_eval is set.
C9_Datasets ==
    /\ Past("train_dataset") =>
          train_dataset = (IF do_train THEN ExpectedDataset("/data/train.txt") ELSE None)
    /\ Past("eval_dataset") =>
          /\ eval_dataset = (IF do_eval THEN ExpectedDataset("/data/eval.txt") ELSE None)
          /\ Cardinality(CtorCalls) = (IF do_train THEN 1 ELSE 0) + (IF do_eval THEN 1 ELSE 0)
    /\ ~Past("train_dataset") => train_dataset = None
    /\ ~Past("eval_dataset") => eval_dataset = None
    /\ ~Made(IF line_by_line THEN "TextDataset" ELSE "LineByLineTextDataset")
    /\ Cardinality(CtorCalls) <= 2

C9_Witness ==
    /\ Past("eval_dataset")
    /\ line_by_line
    /\ do_eval
    /\ ~do_train
    /\ train_dataset = None
    /\ eval_dataset.ctor = "LineByLineTextDataset"
    /\ eval_dataset.file_path = eval_data_file

\* ---- C10 ----------------------------------------------------------------
\* C10: once the separator is added the vocabulary is one token larger than
\* when it was loaded, and from the resize on the embedding table has as
\* many rows as the vocabulary has tokens.
C10_VocabAndEmbedding ==
    /\ Past("add_special_tokens") => len(vocab) = loadedVocab + 1
    /\ Past("resize_token_embeddings") => emb = len(vocab) /\ emb = config.vocab_size + 1
    /\ ~Past("add_special_tokens") => len(vocab) = loadedVocab

C10_Witness ==
    /\ pc = "done"
    /\ loadedVocab = 2
    /\ len(vocab) = 3
    /\ emb = 3
====
